---- MODULE Spec2Model ----
(***************************************************************************)
(* Model of the RAG backend of AI-Powered-Portfolio.                       *)
(*                                                                         *)
(*   SpecStream : RAGEngine.process_question driving                       *)
(*                OpenRouterClient.stream_completion (retry loop, SSE      *)
(*                frame parsing, backoff waits).                           *)
(*   SpecSSE    : generate_sse_stream of main.py around process_question.  *)
(*   SpecStore  : VectorStore handles over one persisted Chroma collection *)
(*                (add_documents, similarity_search, clear_collection,     *)
(*                get_collection_count).                                   *)
(*   SpecInit   : RAGInitializer.initialize across restarts.               *)
(*   SpecChunk  : EmbeddingService.chunk_resume as a function of the       *)
(*                lengths of the document's fields.                        *)
(*   SpecMeta   : RAGInitializer._create_metadata as a function of the     *)
(*                keywords a chunk contains.                               *)
(***************************************************************************)
EXTENDS Integers, Sequences, FiniteSets, TLC

VARIABLES
    \* ---- process_question / stream_completion ----
    pqpc,          \* position of process_question: idle, streaming, done, raised
    question,      \* the question passed to process_question (sequence of characters)
    groq_client,   \* lifespan: TRUE when app.state.groq_client is a client, FALSE when None
    encCalls,      \* calls made to embedding_service.generate_embedding
    searchCalls,   \* calls made to vector_store.similarity_search
    clientCalls,   \* calls made to openrouter_client.stream_completion
    groqCalls,     \* calls made to a secondary client's stream_completion
    context,       \* number of chunks retrieved for the prompt
    scpc,          \* position of stream_completion: none, request, streaming, waiting, returned, raised
    attempt,       \* loop variable of "for attempt in range(self.max_retries)"
    sent,          \* number of requests sent to the provider in this call
    frames,        \* lines read from the response of the current attempt
    conn,          \* TRUE while the httpx streaming connection of an attempt is open
    delivered,     \* tokens handed to the consumer of process_question, in order
    cur,           \* tokens yielded by the current attempt
    sleeps,        \* delays passed to asyncio.sleep, in order
    outcomes,      \* how each finished attempt ended, in order
    err,           \* kind of the exception raised to the caller, "none" if none
    ended,         \* the frame on which stream_completion returned, if it has
    calls,         \* the calls process_question made on its collaborators, in order
    produced,      \* tokens yielded by stream_completion, in order
    \* ---- generate_sse_stream ----
    ssepc,         \* position of generate_sse_stream: off (process_question is
                   \* driven directly), start, rag, persist, finished
    db_available,  \* the local variable db_available
    events,        \* the done and error events yielded, in order (the token
                   \* events are the tokens of delivered, and precede them)
    persisted,     \* the messages saved and committed, in order
    saves,         \* the save_message calls made, each with how it ended
    \* ---- the persisted Chroma collection and the VectorStore handles ----
    collExists,    \* the collection "resume_chunks" exists in the persist directory
    collDim,       \* dimensionality Chroma recorded for the collection, 0 when none yet
    entries,       \* id -> [text, dim, tag] of the entries the collection holds
    handle,        \* self.collection of each VectorStore: "None", "live", or "stale"
                   \* (a Collection object whose collection has since been deleted)
    last,          \* the last VectorStore / initialize call: operation, arguments, outcome
    prevEntries,   \* entries as they were before the last call
    runs,          \* number of initialize calls and direct add_documents calls made
    \* ---- chunk_resume ----
    doc,           \* the resume document, each string given by its length
    chunks,        \* the chunks returned, each given by its kind and its length
    cpc,           \* "input" before chunk_resume has run, "done" after
    \* ---- _create_metadata ----
    mchunk,        \* the chunk: the keywords its lowercased text contains, the
                   \* position of its first colon, its index in the list
    metadata,      \* the dictionary returned
    mpc            \* "input" before _create_metadata has run, "done" after

streamVars == <<pqpc, question, groq_client, encCalls, searchCalls, clientCalls,
                groqCalls, context, scpc, attempt, sent, frames, conn, delivered,
                cur, sleeps, outcomes, err, ended, calls, produced>>

sseVars == <<ssepc, db_available, events, persisted, saves>>

storeVars == <<collExists, collDim, entries, handle, last, prevEntries, runs>>

chunkVars == <<doc, chunks, cpc>>

metaVars == <<mchunk, metadata, mpc>>

vars == <<streamVars, sseVars, storeVars, chunkVars, metaVars>>

\* what the steps of process_question / stream_completion leave alone
notStream == <<sseVars, storeVars, chunkVars, metaVars>>

\* what the VectorStore and initialize steps leave alone
notStore == <<streamVars, sseVars, chunkVars, metaVars>>

\* what chunk_resume leaves alone
notChunk == <<streamVars, sseVars, storeVars, metaVars>>

\* what the steps of generate_sse_stream itself leave alone
notSSE == <<streamVars, storeVars, chunkVars, metaVars>>

\* what _create_metadata leaves alone
notMeta == <<streamVars, sseVars, storeVars, chunkVars>>

(***************************************************************************)
(* Bounds                                                                  *)
(***************************************************************************)
MaxFrames == 2

MaxBatch == 2

MaxRuns == 2

NumChunks == 3

Tokens == {"a", "b"}

(***************************************************************************)
(* OpenRouterClient                                                        *)
(***************************************************************************)
max_retries_four == 4

max_retries == 3

retry_delays_doubled == <<2, 4, 8>>

retry_delays == <<1, 2, 4>>

\* HTTP statuses the provider may answer with
Statuses == {200, 400, 429, 500}

\* exceptions httpx raises while connecting or reading
TransportErrors == {"TimeoutException", "HTTPError"}

\* str.strip() on a sequence of characters: drop leading and trailing blanks
RECURSIVE strip(_)
strip(s) ==
    IF s = <<>> THEN <<>>
    ELSE IF Head(s) = " " THEN strip(Tail(s))
    ELSE IF s[Len(s)] = " " THEN strip(SubSeq(s, 1, Len(s) - 1))
    ELSE s

IsEmptyQuestion_nostrip(q) == q = <<>>

\* "not question or not question.strip()"
IsEmptyQuestion(q) == q = <<>> \/ strip(q) = <<>>

Questions == {<<>>, <<" ">>, <<" ", " ">>, <<" ", "h", " ">>}

\* numbers of chunks similarity_search may hand back (k = 3)
SearchOutcomes == {0, 3}

\* The handler shared by the 429 branch and the three except clauses: wait
\* and retry unless this was the last attempt. cause is what made the attempt
\* fail, kind the exception that reaches the caller if it was the last one,
\* held whether the wait happens inside the "async with" of the response.
FailAttempt_fatal4xx(cause, kind, held) ==
    /\ outcomes' = Append(outcomes, cause)
    /\ IF attempt < max_retries - 1 /\ cause # "status"
       THEN /\ sleeps' = Append(sleeps, retry_delays[attempt + 1])
            /\ scpc' = "waiting"
            /\ conn' = held
            /\ UNCHANGED <<pqpc, err>>
       ELSE /\ scpc' = "raised"
            /\ conn' = FALSE
            /\ err' = kind
            /\ pqpc' = "raised"
            /\ UNCHANGED sleeps

FailAttempt(cause, kind, held) ==
    /\ outcomes' = Append(outcomes, cause)
    /\ IF attempt < max_retries - 1
       THEN /\ sleeps' = Append(sleeps, retry_delays[attempt + 1])
            /\ scpc' = "waiting"
            /\ conn' = held
            /\ UNCHANGED <<pqpc, err>>
       ELSE /\ scpc' = "raised"
            /\ conn' = FALSE
            /\ err' = kind
            /\ pqpc' = "raised"
            /\ UNCHANGED sleeps

\* stream_completion returns normally; process_question's loop ends
ReturnNormally ==
    /\ outcomes' = Append(outcomes, "ok")
    /\ scpc' = "returned"
    /\ conn' = FALSE
    /\ pqpc' = "done"
    /\ UNCHANGED <<sleeps, err>>

(***************************************************************************)
(* VectorStore over the persisted Chroma collection                        *)
(***************************************************************************)
Handles == {"h1", "h2"}

\* dimensionalities an embedding handed to add_documents may have
Dims == {384, 128}

NoEntries == <<>>

Count(ents) == Cardinality(DOMAIN ents)

NoCall == [op |-> "none"]

StoreAtRest ==
    /\ collExists = FALSE
    /\ collDim = 0
    /\ entries = NoEntries
    /\ handle = [h \in Handles |-> "None"]
    /\ last = NoCall
    /\ prevEntries = NoEntries
    /\ runs = 0

\* ids = [f"doc_{i}" for i in range(len(texts))]: the id of the i-th document
\* of a batch; tag identifies the batch and plays no part in the id
DocId_perBatch(i, tag) == tag * 100 + i

DocId(i, tag) == i

\* Collection.add of chromadb: an id the collection already holds is skipped,
\* the other records are inserted
RECURSIVE AddRecords(_, _, _)
AddRecords(ents, ids, recs) ==
    IF ids = <<>> THEN ents
    ELSE AddRecords(IF Head(ids) \in DOMAIN ents
                    THEN ents
                    ELSE ents @@ (Head(ids) :> Head(recs)),
                    Tail(ids), Tail(recs))

\* "embeddings and len(embeddings[0]) != 384"
FirstDimWrong_unchecked(embDims) == FALSE

FirstDimWrong(embDims) == embDims # <<>> /\ embDims[1] # 384

\* the store as one record, so that initialize can chain the calls
StoreState(hs, ex, dim, ents) ==
    [handle |-> hs, exists |-> ex, dim |-> dim, entries |-> ents]

\* VectorStore.add_documents: texts are given by their values, embeddings by
\* their dimensionalities, metadatas by their number (-1 for None).
\* Yields the outcome and the store afterwards.
add_documents(st, texts, embDims, nMeta, tag, storeOk) ==
    LET nTexts == Len(texts) IN
    IF nTexts # Len(embDims) THEN [outcome |-> "ValueError", store |-> st]
    ELSE IF nMeta # -1 /\ nMeta # nTexts THEN [outcome |-> "ValueError", store |-> st]
    ELSE IF FirstDimWrong(embDims) THEN [outcome |-> "ValueError", store |-> st]
    ELSE IF ~storeOk THEN [outcome |-> "StoreError", store |-> st]
    ELSE
      LET \* get_collection, or create_collection when it does not exist
          ents0 == IF st.exists THEN st.entries ELSE NoEntries
          dim0  == IF st.exists THEN st.dim ELSE 0
          \* chromadb fixes the dimensionality with the first record it sees
          dim1  == IF dim0 = 0 /\ nTexts > 0 THEN embDims[1] ELSE dim0
          ids   == [i \in 1..nTexts |-> DocId(i - 1, tag)]
          recs  == [i \in 1..nTexts |-> [text |-> texts[i], dim |-> embDims[i], tag |-> tag]]
      IN IF \E i \in 1..nTexts : embDims[i] # dim1
         THEN [outcome |-> "InvalidDimension",
               store |-> StoreState("live", TRUE, dim1, ents0)]
         ELSE [outcome |-> "ok",
               store |-> StoreState("live", TRUE, dim1, AddRecords(ents0, ids, recs))]

\* "except Exception as e: ... return 0": a count() that raises is answered
\* with 0
CountFailed_reraise(st) == [outcome |-> "raised", value |-> 0, store |-> st]

CountFailed(st) == [outcome |-> "ok", value |-> 0, store |-> st]

\* VectorStore.get_collection_count: the value returned and the handle afterwards
get_collection_count(st, storeOk) ==
    IF st.handle = "None" /\ (~st.exists \/ ~storeOk)
    THEN [outcome |-> "ok", value |-> 0, store |-> st]
    ELSE LET hs == IF st.handle = "None" THEN "live" ELSE st.handle
             st1 == [st EXCEPT !.handle = hs]
         IN IF hs = "stale" \/ ~storeOk
            THEN CountFailed(st1)
            ELSE [outcome |-> "ok", value |-> Count(st.entries), store |-> st1]

\* VectorStore.clear_collection; deleted says whether delete_collection ran
clear_collection(st, storeOk) ==
    IF st.handle = "None"
    THEN [outcome |-> "ok", deleted |-> FALSE, store |-> st]
    ELSE IF ~st.exists \/ ~storeOk
    THEN [outcome |-> "raised", deleted |-> FALSE, store |-> st]
    ELSE [outcome |-> "ok", deleted |-> TRUE,
          store |-> StoreState("None", FALSE, 0, NoEntries)]

\* the embedding of a query, and of a stored text, as a point on a line: the
\* distance chromadb computes between them, in tenths
QueryPoints == {6, 12}

Distance(q, rec) ==
    LET pos == 4 * rec.text
    IN IF pos >= q THEN pos - q ELSE q - pos

\* Collection.query of chromadb: the n_results nearest records, nearest first;
\* records at the same distance come in insertion order
Nearer(ents, q, a, b) ==
    \/ Distance(q, ents[a]) < Distance(q, ents[b])
    \/ /\ Distance(q, ents[a]) = Distance(q, ents[b])
       /\ \/ ents[a].tag < ents[b].tag
          \/ ents[a].tag = ents[b].tag /\ a < b

RECURSIVE Query(_, _, _, _)
Query(ents, ids, q, n_results) ==
    IF n_results = 0 \/ ids = {} THEN <<>>
    ELSE LET m == CHOOSE a \in ids : \A b \in ids \ {a} : Nearer(ents, q, a, b)
         IN <<m>> \o Query(ents, ids \ {m}, q, n_results - 1)

\* "similarity_scores = [1 - dist for dist in distances]", in tenths
Similarity_raw(dist) == dist

Similarity(dist) == 10 - dist

Min(a, b) == IF a <= b THEN a ELSE b

\* VectorStore.similarity_search: qDim is the dimensionality of the query
\* embedding, q the point it stands for. Yields the outcome, the list of
\* (text, similarity) pairs and the handle afterwards.
similarity_search(st, qDim, q, k, storeOk) ==
    IF qDim # 384 \/ k < 1
    THEN [outcome |-> "ValueError", results |-> <<>>, store |-> st]
    ELSE IF st.handle = "None" /\ (~st.exists \/ ~storeOk)
    THEN \* get_collection raised: "return []"
         [outcome |-> "ok", results |-> <<>>, store |-> st]
    ELSE LET hs == IF st.handle = "None" THEN "live" ELSE st.handle
             st1 == [st EXCEPT !.handle = hs]
             count == Count(st.entries)
         IN IF hs = "stale" \/ ~storeOk
            THEN \* Collection.count raised and the handler re-raises
                 [outcome |-> "raised", results |-> <<>>, store |-> st1]
            ELSE IF count = 0
            THEN [outcome |-> "ok", results |-> <<>>, store |-> st1]
            ELSE LET ids == Query(st.entries, DOMAIN st.entries, q, Min(k, count))
                 IN [outcome |-> "ok",
                     results |-> [i \in 1..Len(ids) |->
                                    [text |-> st.entries[ids[i]].text,
                                     score |-> Similarity(Distance(q, st.entries[ids[i]]))]],
                     store |-> st1]

\* the store as the handle h sees it
View(h) == StoreState(handle[h], collExists, collDim, entries)

\* write a store record back; when the collection was deleted the Collection
\* objects the other handles hold become stale
Commit(h, st, deleted) ==
    /\ collExists' = st.exists
    /\ collDim' = st.dim
    /\ entries' = st.entries
    /\ handle' = [g \in Handles |->
                    IF g = h THEN st.handle
                    ELSE IF deleted /\ handle[g] = "live" THEN "stale"
                    ELSE handle[g]]
    /\ prevEntries' = entries

(***************************************************************************)
(* EmbeddingService.chunk_resume on the lengths of the document's strings  *)
(***************************************************************************)
\* lengths the strings of one section may have
Sizes == {10, 60, 150, 600}

RECURSIVE Sum(_)
Sum(lens) == IF lens = <<>> THEN 0 ELSE Head(lens) + Sum(Tail(lens))

\* len(sep.join(items)) for items of the given lengths
JoinLen(lens, sepLen) ==
    IF lens = <<>> THEN 0 ELSE Sum(lens) + sepLen * (Len(lens) - 1)

\* len(s[:n])
Truncated(len, n) == IF len > n THEN n ELSE len

Min_chunk == 200

Max_chunk == 500

Absent == [present |-> FALSE]

PersonalOf(n) ==
    [present |-> TRUE, name |-> n, location |-> n, email |-> n, linkedin |-> n,
     github |-> n]

EducationOf(n) ==
    [present |-> TRUE, degree |-> n, institution |-> n, cgpa |-> 4,
     expected_graduation |-> 4, relevant_coursework |-> <<n, n>>]

ExperienceOf(n) ==
    [present |-> TRUE,
     list |-> <<[role |-> n, company |-> n, location |-> n, duration |-> 10,
                 responsibilities |-> <<n, n>>, technologies |-> <<n, 10>>]>>]

SkillCategories == <<"languages", "frontend", "backend", "databases", "devops", "ai_ml">>

SkillsOf(n) ==
    [present |-> TRUE,
     lists |-> [c \in {SkillCategories[i] : i \in 1..6} |->
                  IF c = "devops" THEN <<n>> ELSE <<n, n, 10>>]]

ProjectsOf(n) ==
    [present |-> TRUE,
     list |-> <<[name |-> 10, description |-> n, technologies |-> <<10, 10>>,
                 highlights |-> <<n, n>>, github |-> n, demo |-> n]>>]

Docs ==
    [personal   : {Absent} \cup {PersonalOf(n) : n \in Sizes},
     education  : {Absent} \cup {EducationOf(n) : n \in Sizes},
     experience : {Absent} \cup {ExperienceOf(n) : n \in Sizes},
     skills     : {Absent} \cup {SkillsOf(n) : n \in Sizes},
     projects   : {Absent} \cup {ProjectsOf(n) : n \in Sizes}]

EmptyDoc ==
    [personal |-> Absent, education |-> Absent, experience |-> Absent,
     skills |-> Absent, projects |-> Absent]

\* "if len(chunk) >= 200: chunks.append(chunk)"
Kept(kind, len) == IF len >= Min_chunk THEN <<[kind |-> kind, len |-> len]>> ELSE <<>>

\* "if len(chunk) >= 200: chunks.append(chunk[:500])"
KeptCapped(kind, len) ==
    IF len >= Min_chunk THEN <<[kind |-> kind, len |-> Truncated(len, Max_chunk)]>>
    ELSE <<>>

PersonalChunks(d) ==
    IF ~d.personal.present THEN <<>>
    ELSE LET p == d.personal
         IN Kept("personal", 48 + p.name + p.location + p.email + p.linkedin + p.github)

EducationChunks(d) ==
    IF ~d.education.present THEN <<>>
    ELSE LET e == d.education
         IN Kept("education", 73 + e.degree + e.institution + e.cgpa
                               + e.expected_graduation
                               + JoinLen(e.relevant_coursework, 2))

ExperienceEntryChunks(x) ==
    LET responsibilities == JoinLen(x.responsibilities, 1)
        technologies == JoinLen(x.technologies, 2)
    IN Kept("experience", 53 + x.role + x.company + x.location + x.duration
                           + Truncated(responsibilities, 300))
       \o (IF technologies > 0
           THEN Kept("technologies", 24 + x.role + x.company + technologies)
           ELSE <<>>)

RECURSIVE Flatten(_)
Flatten(ss) == IF ss = <<>> THEN <<>> ELSE Head(ss) \o Flatten(Tail(ss))

ExperienceChunks(d) ==
    IF ~d.experience.present THEN <<>>
    ELSE Flatten([i \in 1..Len(d.experience.list) |->
                    ExperienceEntryChunks(d.experience.list[i])])

\* len of "Programming Languages: ", "Frontend Technologies: ", ...
SkillPrefix == <<23, 23, 22, 23, 14, 20>>

SkillsChunks(d) ==
    IF ~d.skills.present THEN <<>>
    ELSE Flatten([i \in 1..6 |->
                    IF SkillCategories[i] \in DOMAIN d.skills.lists
                    THEN Kept(SkillCategories[i],
                              SkillPrefix[i] + JoinLen(d.skills.lists[SkillCategories[i]], 2))
                    ELSE <<>>])

ProjectEntryChunks(pr) ==
    LET highlights == JoinLen(pr.highlights, 1)
        links == <<8 + pr.github, 6 + pr.demo>>
    IN KeptCapped("project", 17 + pr.name + pr.description + JoinLen(pr.technologies, 2))
       \o (IF highlights > 0
           THEN KeptCapped("highlights", 13 + pr.name + highlights)
           ELSE <<>>)
       \o Kept("links", 3 + pr.name + JoinLen(links, 2))

ProjectsChunks(d) ==
    IF ~d.projects.present THEN <<>>
    ELSE Flatten([i \in 1..Len(d.projects.list) |->
                    ProjectEntryChunks(d.projects.list[i])])

chunk_resume(d) ==
    PersonalChunks(d) \o EducationChunks(d) \o ExperienceChunks(d)
    \o SkillsChunks(d) \o ProjectsChunks(d)

ChunkAtRest ==
    /\ doc = EmptyDoc
    /\ chunks = <<>>
    /\ cpc = "input"

ChunkResume ==
    /\ UNCHANGED notChunk
    /\ cpc = "input"
    /\ chunks' = chunk_resume(doc)
    /\ cpc' = "done"
    /\ UNCHANGED doc

(***************************************************************************)
(* RAGInitializer._create_metadata                                         *)
(***************************************************************************)
MaxWords == 2

PersonalKeywords == {"contact:", "email:", "linkedin:", "github:"}

EducationKeywords == {"education:", "b.tech", "cgpa:"}

ExperienceKeywords == {"current role:", "responsibilities:", "duration:"}

SkillKeywords == {"programming languages:", "frontend technologies:",
                  "backend technologies:", "database technologies:",
                  "devops tools:", "ai/ml technologies:"}

\* the words the inner chain of the skills branch looks for
CategoryWords == {"frontend", "backend", "database", "devops", "ai/ml"}

Words == PersonalKeywords \cup EducationKeywords \cup ExperienceKeywords
            \cup SkillKeywords \cup CategoryWords

\* "w in f" among the words above
Within(w, f) ==
    \/ w = f
    \/ <<w, f>> \in {<<"frontend", "frontend technologies:">>,
                     <<"backend", "backend technologies:">>,
                     <<"database", "database technologies:">>,
                     <<"devops", "devops tools:">>,
                     <<"ai/ml", "ai/ml technologies:">>}

\* "w in chunk_lower"
Has(c, w) == \E f \in c.words : Within(w, f)

HasAny(c, ws) == \E w \in ws : Has(c, w)

\* the if / elif chain of the sections that have keywords, in its order
SectionRules_experienceFirst ==
    << [section |-> "experience", subsection |-> "work_experience",
        keywords |-> ExperienceKeywords],
       [section |-> "personal", subsection |-> "contact_info",
        keywords |-> PersonalKeywords],
       [section |-> "education", subsection |-> "academic_background",
        keywords |-> EducationKeywords],
       [section |-> "skills", subsection |-> "unset", keywords |-> SkillKeywords] >>

SectionRules ==
    << [section |-> "personal", subsection |-> "contact_info",
        keywords |-> PersonalKeywords],
       [section |-> "education", subsection |-> "academic_background",
        keywords |-> EducationKeywords],
       [section |-> "experience", subsection |-> "work_experience",
        keywords |-> ExperienceKeywords],
       [section |-> "skills", subsection |-> "unset", keywords |-> SkillKeywords] >>

\* the inner chain of the skills branch; "unset" when no branch is taken and
\* the dictionary gets no subsection
SkillSubsection(c) ==
    IF Has(c, "programming languages:") THEN "languages"
    ELSE IF Has(c, "frontend") THEN "frontend"
    ELSE IF Has(c, "backend") THEN "backend"
    ELSE IF Has(c, "database") THEN "databases"
    ELSE IF Has(c, "devops") THEN "devops"
    ELSE IF Has(c, "ai/ml") THEN "ai_ml"
    ELSE "unset"

\* the else branch: the project name when the first colon is at 1..99
ProjectSubsection(c) ==
    IF c.first_colon > 0 /\ c.first_colon < 100 THEN "project_name"
    ELSE "project_index"

create_metadata(c) ==
    LET hits == {i \in 1..Len(SectionRules) : HasAny(c, SectionRules[i].keywords)}
        base == [chunk_id |-> c.index, source |-> "resume.json"]
    IN IF hits = {}
       THEN base @@ [section |-> "projects", subsection |-> ProjectSubsection(c)]
       ELSE LET rule == SectionRules[CHOOSE i \in hits : \A j \in hits : i <= j]
            IN base @@ [section |-> rule.section,
                        subsection |-> IF rule.section = "skills"
                                       THEN SkillSubsection(c)
                                       ELSE rule.subsection]

\* the sets of at most n of the words
RECURSIVE WordSets(_)
WordSets(n) ==
    IF n = 0 THEN {{}}
    ELSE LET smaller == WordSets(n - 1)
         IN smaller \cup {ws \cup {w} : ws \in smaller, w \in Words}

\* positions of the first colon: none, at the start, within the first
\* hundred characters, beyond
ColonPositions == {-1, 0, 50, 100}

\* a word that ends in a colon puts a colon into the chunk
HasColon(ws) == ws \ (CategoryWords \cup {"b.tech"}) # {}

MetaChunks ==
    {c \in [words : WordSets(MaxWords), first_colon : ColonPositions, index : {0, 7}] :
        HasColon(c.words) => c.first_colon # -1}

NoMetadata == [chunk_id |-> 0, source |-> "none", section |-> "unset",
               subsection |-> "unset"]

MetaAtRest ==
    /\ mchunk = [words |-> {}, first_colon |-> -1, index |-> 0]
    /\ metadata = NoMetadata
    /\ mpc = "off"

CreateMetadata ==
    /\ UNCHANGED notMeta
    /\ mpc = "input"
    /\ metadata' = create_metadata(mchunk)
    /\ mpc' = "done"
    /\ UNCHANGED mchunk

(***************************************************************************)
(* RAGEngine.process_question up to its first suspension point             *)
(***************************************************************************)
\* a call on a collaborator: the text it is given (the question for the
\* encoder, the prompt, which embeds the question, for the client) and the k
\* it is given (0 when it takes none)
Call(fn, text, k) == [fn |-> fn, text |-> text, k |-> k]

\* "k=3" of the call to similarity_search
top_k_five == 5

top_k == 3

ProcessQuestion(q, encOk, searchOk, found) ==
    /\ UNCHANGED notStream
    /\ pqpc = "idle"
    /\ ssepc \in {"off", "rag"}
    /\ question' = q
    /\ IF IsEmptyQuestion(q)
       THEN /\ pqpc' = "raised"
            /\ err' = "ValueError"
            /\ UNCHANGED <<encCalls, searchCalls, clientCalls, context, scpc, sent, calls>>
       ELSE /\ encCalls' = encCalls + 1
            /\ IF ~encOk
               THEN /\ pqpc' = "raised"
                    /\ err' = "EncoderError"
                    /\ calls' = calls \o <<Call("generate_embedding", q, 0)>>
                    /\ UNCHANGED <<searchCalls, clientCalls, context, scpc, sent>>
               ELSE /\ searchCalls' = searchCalls + 1
                    /\ IF ~searchOk
                       THEN /\ pqpc' = "raised"
                            /\ err' = "VectorStoreError"
                            /\ calls' = calls \o <<Call("generate_embedding", q, 0),
                                                   Call("similarity_search", <<>>, top_k)>>
                            /\ UNCHANGED <<clientCalls, context, scpc, sent>>
                       ELSE /\ context' = found
                            /\ clientCalls' = clientCalls + 1
                            /\ calls' = calls \o <<Call("generate_embedding", q, 0),
                                                   Call("similarity_search", <<>>, top_k),
                                                   Call("stream_completion", q, 0)>>
                            /\ pqpc' = "streaming"
                            /\ scpc' = "request"
                            /\ sent' = 1
                            /\ UNCHANGED err
    /\ UNCHANGED <<groq_client, groqCalls, attempt, frames, conn, delivered, cur,
                   sleeps, outcomes, ended, produced>>

(***************************************************************************)
(* OpenRouterClient.stream_completion, one step per suspension point       *)
(***************************************************************************)
\* the provider answers the request of the current attempt with a status line
Respond(st) ==
    /\ UNCHANGED notStream
    /\ scpc = "request"
    /\ IF st = 200
       THEN /\ scpc' = "streaming"
            /\ conn' = TRUE
            /\ UNCHANGED <<pqpc, sleeps, outcomes, err>>
       ELSE IF st = 429
       THEN FailAttempt("429", "HTTPStatusError", TRUE)
       ELSE FailAttempt("status", "ResponseNotRead", FALSE)
    /\ UNCHANGED <<question, groq_client, encCalls, searchCalls, clientCalls,
                   groqCalls, context, attempt, sent, frames, delivered, cur, ended, calls, produced>>

\* the request itself fails (connect timeout, connection refused, ...)
RequestError(kind) ==
    /\ UNCHANGED notStream
    /\ scpc = "request"
    /\ FailAttempt(kind, kind, FALSE)
    /\ UNCHANGED <<question, groq_client, encCalls, searchCalls, clientCalls,
                   groqCalls, context, attempt, sent, frames, delivered, cur, ended, calls, produced>>

\* "async for token in ...stream_completion(prompt): yield token": the tokens
\* the client has just yielded are handed on before the next one is pulled
Forward_buffered(seq, toks) == seq

Forward(seq, toks) == seq \o toks

\* a frame whose delta carries non-empty content: the token is yielded
FrameToken(t) ==
    /\ UNCHANGED notStream
    /\ scpc = "streaming"
    /\ frames < MaxFrames
    /\ frames' = frames + 1
    /\ produced' = Append(produced, t)
    /\ delivered' = Forward(delivered, <<t>>)
    /\ cur' = Append(cur, t)
    /\ UNCHANGED <<pqpc, question, groq_client, encCalls, searchCalls, clientCalls,
                   groqCalls, context, scpc, attempt, sent, conn, sleeps, outcomes, err,
                   ended, calls>>

\* a line that yields nothing: not a data line, empty content, no choices,
\* or data that json.loads rejects
FrameSkipped ==
    /\ UNCHANGED notStream
    /\ scpc = "streaming"
    /\ frames < MaxFrames
    /\ frames' = frames + 1
    /\ UNCHANGED <<pqpc, question, groq_client, encCalls, searchCalls, clientCalls,
                   groqCalls, context, scpc, attempt, sent, conn, delivered, cur,
                   sleeps, outcomes, err, ended, calls, produced>>

\* "if content: yield content": what the consumer has received after a frame
\* whose delta carries the content t
YieldOf_never(seq, t) == seq

YieldOf(seq, t) == IF t = "" THEN seq ELSE Append(seq, t)

\* a frame with finish_reason "stop"; t is its content, "" when it has none
FrameStop(t) ==
    /\ UNCHANGED notStream
    /\ scpc = "streaming"
    /\ frames < MaxFrames
    /\ frames' = frames + 1
    /\ produced' = YieldOf(produced, t)
    /\ delivered' = Forward(delivered, YieldOf(<<>>, t))
    /\ cur' = YieldOf(cur, t)
    /\ ended' = [kind |-> "stop", content |-> t]
    /\ ReturnNormally
    /\ UNCHANGED <<question, groq_client, encCalls, searchCalls, clientCalls,
                   groqCalls, context, attempt, sent, calls>>

\* the "[DONE]" marker, or the end of the response body
StreamEnd ==
    /\ UNCHANGED notStream
    /\ scpc = "streaming"
    /\ ended' = [kind |-> "done", content |-> ""]
    /\ ReturnNormally
    /\ UNCHANGED <<question, groq_client, encCalls, searchCalls, clientCalls,
                   groqCalls, context, attempt, sent, frames, delivered, cur,
                   calls, produced>>

\* a data line that is not the frame expected. "json": json.loads rejects it
\* and the JSONDecodeError is caught with "continue". "structure": valid JSON
\* on which the extraction raises (a number or null as the document, null as
\* choices[0] or as its delta): a TypeError no inner clause catches, handled
\* by "except Exception" like a failed attempt
MalformedKinds == {"json", "structure"}

FrameMalformed(kind) ==
    /\ UNCHANGED notStream
    /\ scpc = "streaming"
    /\ frames < MaxFrames
    /\ frames' = frames + 1
    /\ IF kind = "json"
       THEN UNCHANGED <<pqpc, scpc, conn, sleeps, outcomes, err>>
       ELSE FailAttempt("MalformedFrame", "TypeError", FALSE)
    /\ UNCHANGED <<question, groq_client, encCalls, searchCalls, clientCalls,
                   groqCalls, context, attempt, sent, delivered, cur, ended, calls, produced>>

\* reading the body fails: a timeout or a transport error
StreamError(kind) ==
    /\ UNCHANGED notStream
    /\ scpc = "streaming"
    /\ FailAttempt(kind, kind, FALSE)
    /\ UNCHANGED <<question, groq_client, encCalls, searchCalls, clientCalls,
                   groqCalls, context, attempt, sent, frames, delivered, cur, ended, calls, produced>>

\* asyncio.sleep(delay) is over: "continue" starts the next attempt
Wake ==
    /\ UNCHANGED notStream
    /\ scpc = "waiting"
    /\ attempt' = attempt + 1
    /\ sent' = sent + 1
    /\ scpc' = "request"
    /\ conn' = FALSE
    /\ frames' = 0
    /\ cur' = <<>>
    /\ UNCHANGED <<pqpc, question, groq_client, encCalls, searchCalls, clientCalls,
                   groqCalls, context, delivered, sleeps, outcomes, err, ended, calls, produced>>

\* where stream_completion is once the consumer has abandoned it: GeneratorExit
\* and CancelledError derive from BaseException, so that no except clause of
\* the retry loop catches them and the exception leaves the generator
AfterAbandon_caught(pc) == "waiting"

AfterAbandon(pc) == "cancelled"

\* the consumer closes the generator while it is suspended at a yield, or its
\* task is cancelled while it awaits the response, a line or a backoff sleep
Abandon ==
    /\ UNCHANGED notStream
    /\ scpc \in {"request", "streaming", "waiting"}
    /\ pqpc' = "abandoned"
    /\ scpc' = AfterAbandon(scpc)
    /\ conn' = IF AfterAbandon(scpc) = "cancelled" THEN FALSE ELSE conn
    /\ UNCHANGED <<question, groq_client, encCalls, searchCalls, clientCalls,
                   groqCalls, context, attempt, sent, frames, delivered, cur,
                   sleeps, outcomes, err, ended, calls, produced>>

NoFrame == [kind |-> "none", content |-> ""]

SSEAtRest ==
    /\ ssepc = "off"
    /\ db_available = TRUE
    /\ events = <<>>
    /\ persisted = <<>>
    /\ saves = <<>>

StreamAtRest ==
    /\ pqpc = "idle"
    /\ question = <<>>
    /\ encCalls = 0
    /\ searchCalls = 0
    /\ clientCalls = 0
    /\ groqCalls = 0
    /\ context = 0
    /\ scpc = "none"
    /\ attempt = 0
    /\ sent = 0
    /\ frames = 0
    /\ conn = FALSE
    /\ delivered = <<>>
    /\ cur = <<>>
    /\ sleeps = <<>>
    /\ outcomes = <<>>
    /\ err = "none"
    /\ ended = NoFrame
    /\ calls = <<>>
    /\ produced = <<>>

InitStream ==
    /\ StreamAtRest
    /\ SSEAtRest
    /\ groq_client \in BOOLEAN
    /\ StoreAtRest
    /\ ChunkAtRest
    /\ MetaAtRest

NextStream ==
    \/ \E q \in Questions, encOk \in BOOLEAN, searchOk \in BOOLEAN,
          found \in SearchOutcomes :
         ProcessQuestion(q, encOk, searchOk, found)
    \/ \E st \in Statuses : Respond(st)
    \/ \E kind \in TransportErrors : RequestError(kind)
    \/ \E t \in Tokens : FrameToken(t)
    \/ FrameSkipped
    \/ \E t \in Tokens \cup {""} : FrameStop(t)
    \/ StreamEnd
    \/ \E kind \in MalformedKinds : FrameMalformed(kind)
    \/ \E kind \in TransportErrors : StreamError(kind)
    \/ Wake
    \/ Abandon

SpecStream == InitStream /\ [][NextStream]_vars

(***************************************************************************)
(* generate_sse_stream, one step per suspension point                      *)
(***************************************************************************)
\* how a repository call followed by commit may end: it succeeds, it raises
\* SQLAlchemyError (and the rollback works or raises too), or it raises
\* something else
DbOutcomes == {"ok", "SQLAlchemyError", "rollbackFails", "Exception"}

\* the kinds of process_question's exceptions that are httpx.HTTPError
HTTPErrors == {"HTTPStatusError", "TimeoutException", "HTTPError"}

Event(type, content) == [type |-> type, content |-> content]

\* the event of the outermost "except Exception"
Unexpected == Event("error", "unexpected")

\* the content of the error event for an exception of process_question;
\* mentions: str(e) contains "chroma" or "vector"
ErrorContent(kind, mentions) ==
    IF kind \in HTTPErrors THEN "unavailable"
    ELSE IF mentions THEN "no context"
    ELSE "processing"

\* what the except clauses of the token loop yield before "return"
RagErrorEvents_thenDone(content) == <<Event("error", content), Event("done", "")>>

RagErrorEvents(content) == <<Event("error", content)>>

\* a message as the repository stores it; the question is the same text
\* whatever process_question is given, the answer is a sequence of tokens
Message(role, content) == [role |-> role, content |-> content]

TheQuestion == <<"question">>

\* '"".join(full_response)': the content of the assistant message
AssistantContent_first(tokens) ==
    IF tokens = <<>> THEN <<>> ELSE <<tokens[1]>>

AssistantContent(tokens) == tokens

\* a request arrives: the generator is created for a question
SSERequest ==
    /\ UNCHANGED notSSE
    /\ ssepc = "off"
    /\ pqpc = "idle"
    /\ ssepc' = "start"
    /\ UNCHANGED <<db_available, events, persisted, saves>>

\* the user message is saved and committed
SSEStart(db) ==
    /\ UNCHANGED notSSE
    /\ ssepc = "start"
    /\ saves' = Append(saves, [role |-> "user", outcome |-> db])
    /\ IF db = "ok"
       THEN /\ persisted' = Append(persisted, Message("user", TheQuestion))
            /\ ssepc' = "rag"
            /\ UNCHANGED <<db_available, events>>
       ELSE IF db = "SQLAlchemyError"
       THEN /\ db_available' = FALSE
            /\ ssepc' = "rag"
            /\ UNCHANGED <<events, persisted>>
       ELSE /\ db_available' = (db = "Exception")
            /\ events' = Append(events, Unexpected)
            /\ ssepc' = "finished"
            /\ UNCHANGED persisted

\* process_question raised: the except clause yields its error event
SSERagError(mentions) ==
    /\ UNCHANGED notSSE
    /\ ssepc = "rag"
    /\ pqpc = "raised"
    /\ events' = events \o RagErrorEvents(ErrorContent(err, mentions))
    /\ ssepc' = "finished"
    /\ UNCHANGED <<db_available, persisted, saves>>

\* process_question is exhausted: the done event is yielded
SSEDone ==
    /\ UNCHANGED notSSE
    /\ ssepc = "rag"
    /\ pqpc = "done"
    /\ events' = Append(events, Event("done", ""))
    /\ ssepc' = "persist"
    /\ UNCHANGED <<db_available, persisted, saves>>

\* the consumer asks for the next event: the assistant message is saved if
\* db_available, and the generator ends
SSEPersist(db) ==
    /\ UNCHANGED notSSE
    /\ ssepc = "persist"
    /\ ssepc' = "finished"
    /\ IF ~db_available
       THEN UNCHANGED <<events, persisted, saves>>
       ELSE /\ saves' = Append(saves, [role |-> "assistant", outcome |-> db])
            /\ IF db = "ok"
               THEN /\ persisted' = Append(persisted,
                                           Message("assistant", AssistantContent(delivered)))
                    /\ UNCHANGED events
               ELSE IF db = "SQLAlchemyError"
               THEN UNCHANGED <<events, persisted>>
               ELSE /\ events' = Append(events, Unexpected)
                    /\ UNCHANGED persisted
    /\ UNCHANGED db_available

InitSSE ==
    /\ StreamAtRest
    /\ SSEAtRest
    /\ groq_client = FALSE
    /\ StoreAtRest
    /\ ChunkAtRest
    /\ MetaAtRest

NextSSE ==
    \/ SSERequest
    \/ \E db \in DbOutcomes : SSEStart(db)
    \/ \E mentions \in BOOLEAN : SSERagError(mentions)
    \/ SSEDone
    \/ \E db \in DbOutcomes : SSEPersist(db)
    \/ \E q \in Questions, encOk \in BOOLEAN, searchOk \in BOOLEAN,
          found \in SearchOutcomes :
         ProcessQuestion(q, encOk, searchOk, found)
    \/ \E st \in Statuses : Respond(st)
    \/ \E kind \in TransportErrors : RequestError(kind)
    \/ \E t \in Tokens : FrameToken(t)
    \/ FrameSkipped
    \/ \E t \in Tokens \cup {""} : FrameStop(t)
    \/ StreamEnd
    \/ \E kind \in MalformedKinds : FrameMalformed(kind)
    \/ \E kind \in TransportErrors : StreamError(kind)
    \/ Wake
    \/ Abandon

SpecSSE == InitSSE /\ [][NextSSE]_vars

(***************************************************************************)
(* Calls on a VectorStore handle                                           *)
(***************************************************************************)
\* the batches a caller may pass: up to MaxBatch texts and embeddings of
\* either dimensionality
Batches(n) == UNION {[1..k -> Dims] : k \in 0..n}

\* metadatas: None (-1), one per text, or one too many
MetaChoices(nTexts) == {-1, nTexts, nTexts + 1}

AddDocuments(h, nTexts, embDims, nMeta, storeOk) ==
    /\ UNCHANGED notStore
    /\ runs < MaxRuns
    /\ runs' = runs + 1
    /\ LET r == add_documents(View(h), [i \in 1..nTexts |-> i], embDims, nMeta,
                              runs + 1, storeOk)
       IN /\ Commit(h, r.store, FALSE)
          /\ last' = [op |-> "add", h |-> h, nTexts |-> nTexts, embDims |-> embDims,
                      nMeta |-> nMeta, outcome |-> r.outcome]

ClearCollection(h, storeOk) ==
    /\ UNCHANGED notStore
    /\ LET r == clear_collection(View(h), storeOk)
       IN /\ Commit(h, r.store, r.deleted)
          /\ last' = [op |-> "clear", h |-> h, outcome |-> r.outcome,
                      fresh |-> handle[h] = "None"]
    /\ UNCHANGED runs

GetCollectionCount(h, storeOk) ==
    /\ UNCHANGED notStore
    /\ LET r == get_collection_count(View(h), storeOk)
       IN /\ Commit(h, r.store, FALSE)
          /\ last' = [op |-> "count", h |-> h, value |-> r.value, storeOk |-> storeOk,
                      was |-> handle[h], outcome |-> r.outcome]
    /\ UNCHANGED runs

\* values of k a caller may pass: invalid, below and above the index size
Ks == {0, 1, 3}

SimilaritySearch(h, qDim, q, k, storeOk) ==
    /\ UNCHANGED notStore
    /\ LET r == similarity_search(View(h), qDim, q, k, storeOk)
       IN /\ Commit(h, r.store, FALSE)
          /\ last' = [op |-> "search", h |-> h, qDim |-> qDim, k |-> k,
                      was |-> handle[h], storeOk |-> storeOk,
                      outcome |-> r.outcome, results |-> r.results]
    /\ UNCHANGED runs

\* the process restarts: VectorStore.__init__ builds a new handle over the
\* same persist directory
Restart(h) ==
    /\ UNCHANGED notStore
    /\ handle[h] # "None"
    /\ handle' = [handle EXCEPT ![h] = "None"]
    /\ last' = [op |-> "restart", h |-> h]
    /\ prevEntries' = entries
    /\ UNCHANGED <<collExists, collDim, entries, runs>>

InitStore ==
    /\ StoreAtRest
    /\ StreamAtRest
    /\ SSEAtRest
    /\ groq_client = FALSE
    /\ ChunkAtRest
    /\ MetaAtRest

NextStore ==
    \/ \E h \in Handles, nTexts \in 0..MaxBatch, embDims \in Batches(MaxBatch),
          storeOk \in BOOLEAN :
         \E nMeta \in MetaChoices(nTexts) :
         AddDocuments(h, nTexts, embDims, nMeta, storeOk)
    \/ \E h \in Handles, storeOk \in BOOLEAN : ClearCollection(h, storeOk)
    \/ \E h \in Handles, storeOk \in BOOLEAN : GetCollectionCount(h, storeOk)
    \/ \E h \in Handles, qDim \in Dims, q \in QueryPoints, k \in Ks, storeOk \in BOOLEAN :
         SimilaritySearch(h, qDim, q, k, storeOk)
    \/ \E h \in Handles : Restart(h)

SpecStore == InitStore /\ [][NextStore]_vars

(***************************************************************************)
(* RAGInitializer.initialize                                               *)
(***************************************************************************)
\* the chunks chunk_resume yields for the resume file, by number
Corpus == 1..NumChunks

RECURSIVE Ascending(_)
Ascending(S) ==
    IF S = {} THEN <<>>
    ELSE LET m == CHOOSE x \in S : \A y \in S : x <= y
         IN <<m>> \o Ascending(S \ {m})

\* "existing_count > 0 and not force_reinit"
ShouldSkip_never(existing_count, force_reinit) == FALSE

ShouldSkip(existing_count, force_reinit) == existing_count > 0 /\ ~force_reinit

\* "force_reinit and existing_count > 0"
ShouldClear_never(existing_count, force_reinit) == FALSE

ShouldClear(existing_count, force_reinit) == force_reinit /\ existing_count > 0

InitResult(ok, n) == [success |-> ok, chunks_processed |-> n, embeddings_generated |-> n]

\* EmbeddingService.embed_resume_corpus after chunking: the chunks whose
\* encoding succeeds, in the order of the corpus (a chunk whose encoding
\* raises is skipped)
embed_resume_corpus_abort(encoded) ==
    IF encoded = Corpus THEN Ascending(Corpus) ELSE <<>>

embed_resume_corpus(encoded) == Ascending(encoded)

\* the states the resume file may be in: readable, absent, or such that
\* json.load or chunk_resume raises
FileStates == {"ok", "missing", "invalid"}

\* "except FileNotFoundError" and "except Exception" of initialize: the
\* exception is answered with the failure result
InitFailed_propagate(call, kind) ==
    [call EXCEPT !.raised = TRUE, !.cause = kind]

InitFailed(call, kind) ==
    [call EXCEPT !.raised = FALSE, !.cause = kind, !.result = InitResult(FALSE, 0)]

\* one call of initialize on the handle h. file: the state of the resume
\* file; encoded: the chunks whose embedding succeeds; countOk / storeOk:
\* the backing store works during the count / during clear and add.
Initialize(h, force_reinit, file, encoded, countOk, storeOk) ==
    /\ UNCHANGED notStore
    /\ runs < MaxRuns
    /\ runs' = runs + 1
    /\ LET c1 == get_collection_count(View(h), countOk)
           existing_count == c1.value
           call == [op |-> "init", h |-> h, force |-> force_reinit,
                    counted |-> existing_count, before |-> Count(entries),
                    cleared |-> FALSE, chunked |-> FALSE, encodeCalls |-> 0,
                    encoded |-> {}, added |-> FALSE, texts |-> <<>>,
                    onEmpty |-> FALSE, raised |-> FALSE, cause |-> "none",
                    result |-> InitResult(FALSE, 0)]
       IN IF ShouldSkip(existing_count, force_reinit)
          THEN /\ Commit(h, c1.store, FALSE)
               /\ last' = [call EXCEPT !.result = InitResult(TRUE, 0)]
          ELSE
            LET doClear == ShouldClear(existing_count, force_reinit)
                cl == IF doClear THEN clear_collection(c1.store, storeOk)
                      ELSE [outcome |-> "ok", deleted |-> FALSE, store |-> c1.store]
                call1 == [call EXCEPT !.cleared = doClear]
            IN IF cl.outcome # "ok"
               THEN /\ Commit(h, cl.store, cl.deleted)
                    /\ last' = InitFailed(call1, "clear")
               ELSE IF file = "missing"
               THEN /\ Commit(h, cl.store, cl.deleted)
                    /\ last' = InitFailed(call1, "FileNotFoundError")
               ELSE IF file = "invalid"
               THEN /\ Commit(h, cl.store, cl.deleted)
                    /\ last' = InitFailed(call1, "chunking")
               ELSE
                 LET texts == embed_resume_corpus(encoded)
                     call2 == [call1 EXCEPT !.chunked = TRUE,
                                            !.encodeCalls = NumChunks,
                                            !.encoded = encoded]
                 IN IF texts = <<>>
                    THEN \* "No chunks generated from resume"
                         /\ Commit(h, cl.store, cl.deleted)
                         /\ last' = [call2 EXCEPT !.cause = "no chunks"]
                    ELSE
                      LET ad == add_documents(cl.store, texts,
                                              [i \in 1..Len(texts) |-> 384],
                                              Len(texts), runs + 1, storeOk)
                          c2 == get_collection_count(ad.store, storeOk)
                          call3 == [call2 EXCEPT !.added = TRUE, !.texts = texts,
                                                 !.onEmpty = Count(cl.store.entries) = 0]
                      IN IF ad.outcome # "ok"
                         THEN /\ Commit(h, ad.store, cl.deleted)
                              /\ last' = InitFailed(call3, "add")
                         ELSE /\ Commit(h, c2.store, cl.deleted)
                              /\ last' = [call3 EXCEPT
                                            !.result = InitResult(TRUE, Len(texts))]

InitInit ==
    /\ StoreAtRest
    /\ StreamAtRest
    /\ SSEAtRest
    /\ groq_client = FALSE
    /\ ChunkAtRest
    /\ MetaAtRest

NextInit ==
    \/ \E h \in Handles, force_reinit \in BOOLEAN, file \in FileStates,
          encoded \in SUBSET Corpus, countOk \in BOOLEAN, storeOk \in BOOLEAN :
         Initialize(h, force_reinit, file, encoded, countOk, storeOk)
    \/ \E h \in Handles : Restart(h)

SpecInit == InitInit /\ [][NextInit]_vars

InitChunk ==
    /\ doc \in Docs
    /\ chunks = <<>>
    /\ cpc = "input"
    /\ StreamAtRest
    /\ SSEAtRest
    /\ groq_client = FALSE
    /\ StoreAtRest
    /\ MetaAtRest

NextChunk == ChunkResume

SpecChunk == InitChunk /\ [][NextChunk]_vars

InitMeta ==
    /\ mchunk \in MetaChunks
    /\ metadata = NoMetadata
    /\ mpc = "input"
    /\ StreamAtRest
    /\ SSEAtRest
    /\ groq_client = FALSE
    /\ StoreAtRest
    /\ ChunkAtRest

NextMeta == CreateMetadata

SpecMeta == InitMeta /\ [][NextMeta]_vars

(***************************************************************************)
(* Properties of stream_completion and process_question                    *)
(***************************************************************************)
\* the call is over: stream_completion returned or raised
CallOver == scpc \in {"returned", "raised"}

\* every attempt of the call was answered with HTTP 429
Sustained429 ==
    /\ outcomes # <<>>
    /\ \A i \in 1..Len(outcomes) : outcomes[i] = "429"

\* the question consists of blanks only (or of nothing)
BlankQuestion == \A i \in 1..Len(question) : question[i] = " "

\* C1: when a call succeeds after one or more failed attempts, the consumer
\* has received exactly the tokens of the successful attempt.
C1_OnlySuccessfulAttemptTokens ==
    (scpc = "returned" /\ Len(outcomes) > 1) => delivered = cur

\* C2: with a secondary client configured, a failure of the primary stream is
\* followed by one call of the secondary and is never raised to the caller.
C2_FallbackToSecondary ==
    (groq_client /\ scpc = "raised") => (groqCalls = 1 /\ pqpc # "raised")

\* C3: no call makes more than 3 attempts, and a call answered with 429 on
\* every attempt makes exactly 3 attempts and then raises the rate-limit error.
C3_ThreeAttemptsThenRaise ==
    /\ sent <= 3
    /\ (Sustained429 /\ CallOver) =>
           /\ scpc = "raised"
           /\ sent = 3
           /\ Len(outcomes) = 3
           /\ err = "HTTPStatusError"
           /\ pqpc = "raised"

C3_Witness ==
    /\ scpc = "raised"
    /\ outcomes = <<"429", "429", "429">>
    /\ sent = 3

C5_EmptyQuestionFailsFast ==
    (pqpc # "idle" /\ BlankQuestion) =>
        /\ pqpc = "raised"
        /\ err = "ValueError"
        /\ encCalls = 0
        /\ searchCalls = 0
        /\ clientCalls = 0
        /\ sent = 0
        /\ delivered = <<>>

C5_Witness ==
    /\ pqpc = "raised"
    /\ question = <<" ", " ">>
    /\ err = "ValueError"

(***************************************************************************)
(* Properties of initialize and of the VectorStore                         *)
(***************************************************************************)
\* what C6 promises of a call that is skipped
SkippedCleanly ==
    /\ last.result = InitResult(TRUE, 0)
    /\ ~last.cleared
    /\ ~last.chunked
    /\ last.encodeCalls = 0
    /\ ~last.added
    /\ Count(entries) = last.before

C7_NeverMoreThanOneCorpus == Count(entries) <= NumChunks

C7_Witness ==
    /\ last.op = "init"
    /\ last.counted = 0
    /\ last.before > 0
    /\ last.added
    /\ last.result.success
    /\ Count(entries) = NumChunks

\* the batch of the last add_documents call breaks a length or dimension rule
BadBatch ==
    \/ last.nTexts # Len(last.embDims)
    \/ last.nMeta # -1 /\ last.nMeta # last.nTexts
    \/ \E i \in 1..Len(last.embDims) : last.embDims[i] # 384

\* C9: add_documents raises for every batch with lists of different lengths
\* or with an embedding that is not 384-dimensional, and the index then holds
\* exactly the entries it held before.
C9_BadBatchRejectedWhole ==
    (last.op = "add" /\ BadBatch) => (last.outcome # "ok" /\ entries = prevEntries)

C9_Witness ==
    /\ last.op = "add"
    /\ last.nTexts = 2
    /\ last.embDims = <<384, 128>>
    /\ last.nMeta = 2
    /\ last.outcome = "InvalidDimension"
    /\ prevEntries # NoEntries

\* C10: after clear_collection returns normally the index holds no entries.
C10_ClearLeavesNothing ==
    (last.op = "clear" /\ last.outcome = "ok") => (entries = NoEntries)

(***************************************************************************)
(* Properties of chunk_resume                                              *)
(***************************************************************************)
\* C8: every chunk chunk_resume returns, from any section, is between 200
\* and 500 characters long.
C8_ChunkLengthsBounded ==
    cpc = "done" =>
        \A i \in 1..Len(chunks) : chunks[i].len >= 200 /\ chunks[i].len <= 500

(***************************************************************************)
(* Properties of similarity_search and get_collection_count                *)
(***************************************************************************)
\* the last call was a search with a 384-dimensional query and k >= 1
ValidSearch == last.op = "search" /\ last.qDim = 384 /\ last.k >= 1

C12_EmptyIndexNeverRaises ==
    (ValidSearch /\ last.storeOk /\ Count(entries) = 0) =>
        (last.outcome = "ok" /\ last.results = <<>>)

FailureResult == InitResult(FALSE, 0)

\* an exception was raised somewhere during the last run of initialize: by
\* clear, by the resume file, by the encoder for some chunk, or by add
RaisedDuringInit ==
    /\ last.op = "init"
    /\ \/ last.cause \in {"clear", "FileNotFoundError", "chunking", "add"}
       \/ last.chunked /\ last.encoded # Corpus

StoredExactly(texts) ==
    /\ DOMAIN entries = 0..(Len(texts) - 1)
    /\ \A i \in 1..Len(texts) : entries[i - 1].text = texts[i]

C16_AbandonStopsEverything ==
    /\ [](pqpc = "abandoned" => (scpc = "cancelled" /\ ~conn))
    /\ [][pqpc = "abandoned" =>
            (delivered' = delivered /\ frames' = frames /\ sent' = sent)]_vars

\* abandoned during the backoff wait that follows a 429, which is spent with
\* the response still open
C16_Witness ==
    /\ pqpc = "abandoned"
    /\ scpc = "cancelled"
    /\ outcomes = <<"429">>
    /\ sleeps = <<1>>
    /\ sent = 1
    /\ ~conn

\* C17: on the "[DONE]" marker or a frame with finish_reason "stop"
\* stream_completion ends normally: the content of the stop frame is the last
\* token delivered, no error is raised, the connection is released, and from
\* then on no token is delivered and no attempt is started
C17_StopEndsNormally ==
    /\ [](ended # NoFrame =>
            /\ scpc = "returned" /\ pqpc = "done" /\ err = "none" /\ ~conn
            /\ (ended.kind = "stop" /\ ended.content # "") =>
                  (delivered # <<>> /\ delivered[Len(delivered)] = ended.content))
    /\ [][ended # NoFrame =>
            (delivered' = delivered /\ sent' = sent /\ outcomes' = outcomes)]_vars

\* a token frame, then a stop frame that carries content
C17_Witness ==
    /\ ended = [kind |-> "stop", content |-> "b"]
    /\ delivered = <<"a", "b">>
    /\ scpc = "returned"

\* C18: a malformed frame is skipped: it never ends an attempt, so that it
\* neither causes a retry nor makes the call raise
C18_MalformedFrameSkipped ==
    /\ \A i \in 1..Len(outcomes) : outcomes[i] # "MalformedFrame"
    /\ err # "TypeError"

\* the events of the SSE stream, token events first
SSEStream ==
    [i \in 1..Len(delivered) |-> Event("token", delivered[i])] \o events

C20_SearchFailureDegrades ==
    /\ (pqpc # "idle" /\ searchCalls = 1) => clientCalls = 1
    /\ err # "VectorStoreError"
    /\ \A i \in 1..Len(events) : events[i].content # "no context"

(***************************************************************************)
(* Properties of the pipeline of process_question and of the retry loop    *)
(***************************************************************************)
\* C21: for a non-empty question that is answered successfully,
\* process_question has called the encoder once with the raw question, then
\* similarity_search once with k = 3, then stream_completion once, in that
\* order, and nothing else
C21_EncodeSearchStreamOnce ==
    pqpc = "done" =>
        /\ ~BlankQuestion
        /\ calls = <<Call("generate_embedding", question, 0),
                     Call("similarity_search", <<>>, 3),
                     Call("stream_completion", question, 0)>>

\* a question with surrounding blanks, answered on the second attempt
C21_Witness ==
    /\ pqpc = "done"
    /\ question = <<" ", "h", " ">>
    /\ sent = 2
    /\ Len(calls) = 3
    /\ delivered # <<>>

\* C22: at every suspension point the caller of process_question has been
\* handed exactly the tokens stream_completion has yielded, in the same
\* order: none is dropped, added, merged or held back
C22_TokensForwardedAsProduced == delivered = produced

\* two tokens have reached the caller while the stream is still open
C22_Witness ==
    /\ scpc = "streaming"
    /\ pqpc = "streaming"
    /\ produced = <<"a", "b">>
    /\ delivered = <<"a", "b">>

\* C30: every failed attempt that is not the third is followed by exactly
\* one backoff wait and then by a new attempt, whatever made it fail; only a
\* failure of the third attempt ends the call, and it always raises
C30_EveryFailureBacksOffOnce ==
    /\ \A i \in 1..Len(outcomes) - 1 : outcomes[i] # "ok"
    /\ scpc = "waiting" =>
          (Len(outcomes) < 3 /\ Len(sleeps) = Len(outcomes) /\ sent = Len(outcomes))
    /\ scpc \in {"request", "streaming"} =>
          (Len(sleeps) = Len(outcomes) /\ sent = Len(outcomes) + 1)
    /\ scpc = "returned" =>
          (Len(sleeps) = Len(outcomes) - 1 /\ sent = Len(outcomes))
    /\ scpc = "raised" =>
          (Len(outcomes) = 3 /\ Len(sleeps) = 2 /\ sent = 3 /\ err # "none")
    /\ (Len(outcomes) = 3 /\ outcomes[3] # "ok") => (scpc = "raised" /\ pqpc = "raised")

\* a 4xx status, then a timeout, then a frame the parser chokes on
C30_Witness ==
    /\ outcomes = <<"status", "TimeoutException", "MalformedFrame">>
    /\ sleeps = <<1, 2>>
    /\ scpc = "raised"
    /\ err = "TypeError"

(***************************************************************************)
(* Properties of persistence in generate_sse_stream                        *)
(***************************************************************************)
\* saving the user message ended with SQLAlchemyError
UserSaveFailed ==
    /\ saves # <<>>
    /\ saves[1].outcome \in {"SQLAlchemyError", "rollbackFails"}

AssistantSaved == \E i \in 1..Len(persisted) : persisted[i].role = "assistant"

\* C23: if persisting the user message fails with a database error, the
\* request goes on in degraded mode: the question is processed, a successful
\* answer ends with the done event, and save_message is never called for
\* the assistant message
C23_DegradedModeContinues ==
    (UserSaveFailed /\ ssepc = "finished") =>
        /\ pqpc \in {"done", "raised"}
        /\ pqpc = "done" => events = <<Event("done", "")>>
        /\ Len(saves) = 1

\* C24: an assistant message is persisted only once the done event has been
\* emitted, its content is the sequence of all the tokens emitted in the
\* stream, and a stream whose last event is an error event has persisted no
\* assistant message
C24_AssistantPersistedAfterDone ==
    /\ \A i \in 1..Len(persisted) :
          persisted[i].role = "assistant" =>
             /\ events = <<Event("done", "")>>
             /\ persisted[i].content = delivered
             /\ ssepc = "finished"
    /\ (events # <<>> /\ events[Len(events)].type = "error") => ~AssistantSaved

\* the answer "ab" is stored after its done event
C24_Witness ==
    /\ ssepc = "finished"
    /\ persisted = <<Message("user", TheQuestion), Message("assistant", <<"a", "b">>)>>
    /\ events = <<Event("done", "")>>

\* C28: a stream that runs to its end holds exactly one terminal event, done
\* or error, whatever the outcomes of the RAG step and of the two
\* persistence steps (the token events all precede the terminal events)
C28_ExactlyOneTerminalEvent ==
    ssepc = "finished" => Len(events) = 1

(***************************************************************************)
(* Properties of reindexing                                                *)
(***************************************************************************)
\* the index holds exactly the chunks the last run produced, and nothing
\* that an earlier run or call stored
OnlyNewChunks ==
    /\ StoredExactly(last.texts)
    /\ Count(entries) = last.result.chunks_processed
    /\ \A id \in DOMAIN entries : entries[id].tag = runs

C27_SearchDuringReindexNeverFails ==
    (ValidSearch /\ last.storeOk) => last.outcome = "ok"

\* C29: when initialize returns success = False the index holds exactly the
\* entries it held before the call
C29_FailedInitLeavesIndex ==
    (last.op = "init" /\ ~last.result.success) => entries = prevEntries

(***************************************************************************)
(* Properties of _create_metadata                                          *)
(***************************************************************************)
Sections == {"personal", "education", "experience", "skills", "projects"}

\* C26: the section is that of the first rule that matches in the order
\* personal/contact, education, experience, skills, with projects as the
\* default; every chunk gets one of the five sections and a subsection
C26_FirstMatchingSection ==
    mpc = "done" =>
        /\ metadata.section =
              (IF HasAny(mchunk, PersonalKeywords) THEN "personal"
               ELSE IF HasAny(mchunk, EducationKeywords) THEN "education"
               ELSE IF HasAny(mchunk, ExperienceKeywords) THEN "experience"
               ELSE IF HasAny(mchunk, SkillKeywords) THEN "skills"
               ELSE "projects")
        /\ metadata.section \in Sections
        /\ metadata.subsection # "unset"

\* a chunk that names both a degree and a duration is tagged education
C26_Witness ==
    /\ mpc = "done"
    /\ mchunk.words = {"b.tech", "duration:"}
    /\ metadata.section = "education"
    /\ metadata.subsection = "academic_background"

====
